---------------------------- MODULE Spec2Model ----------------------------
(***************************************************************************)
(* A model of allkeyshop.py, the Prometheus exporter for allkeyshop.com.   *)
(*                                                                         *)
(* Strings the program inspects character by character (product names,     *)
(* section headers, attribute values) are sequences of one-character       *)
(* strings; strings it only compares as a whole are TLA+ strings.          *)
(*                                                                         *)
(* Three specifications share the module:                                  *)
(*   SpecSlug     applies ProductPageRequest.to_slug to bounded strings;   *)
(*   SpecResolve  applies AllKeyShop.resolve_product to bounded pages;     *)
(*   Spec         is main(): the startup loop over the configuration       *)
(*                sections, start_http_server, and the polling loop        *)
(*                (LiveSpec adds the fairness of the program's own steps,  *)
(*                SpecSelect runs the first tick over every offer list).   *)
(***************************************************************************)
EXTENDS Integers, Sequences, FiniteSets, TLC

VARIABLES
    \* SpecSlug
    string,         \* the argument of to_slug
    slug,           \* to_slug(string), once computed
    reslug,         \* to_slug(slug), once computed
    slugPc,         \* "input", "slugged" or "reslugged"
    \* SpecResolve
    html,           \* the response to the product page request
    resolved,       \* the outcome of resolve_product, once it ran
    \* Spec
    config,         \* the sections of the configuration file, in file order
    pc,             \* where main() stands
    sidx,           \* the section the startup loop is at
    settings,       \* main()'s local `settings`, bound by the startup loop
    products,       \* main()'s list `products`
    serverStarted,  \* start_http_server has been called
    exitCode,       \* the status exit() was called with, or NoExit
    pageLog,        \* the product page requests issued, with their responses
    idx,            \* the product the polling loop is at
    response,       \* the response to the latest offers request
    outcome,        \* what the latest iteration of the polling loop did
    gauge           \* the children of the gauge: (product_name, currency) -> value

slugVars == <<string, slug, reslug, slugPc>>
resolveVars == <<html, resolved>>
mainVars == <<config, pc, sidx, settings, products, serverStarted, exitCode,
              pageLog, idx, response, outcome, gauge>>
vars == <<string, slug, reslug, slugPc, html, resolved, config, pc, sidx,
          settings, products, serverStarted, exitCode, pageLog, idx, response,
          outcome, gauge>>

(***************************************************************************)
(* Bounds of the model.                                                    *)
(***************************************************************************)
MaxSlugLen == 3
MaxTags == 2
MaxAttrs == 1
MaxProducts == 2
MaxOffers == 2

\* Sequences over S of length at most n.
SeqsUpTo(S, n) == UNION {[1..k -> S] : k \in 0..n}

(***************************************************************************)
(* Characters.                                                             *)
(***************************************************************************)
Whitespace == {" ", "\t", "\n"}
Digits == {"0", "1", "2", "3", "4", "5", "6", "7", "8", "9"}
UpperCase == {"A", "B", "G", "E", "U", "R"}
LowerCase == {"a", "b", "g", "e", "u", "r"}

\* str.lower() on one character.
LowerChar(c) ==
    CASE c = "A" -> "a"
      [] c = "B" -> "b"
      [] c = "G" -> "g"
      [] c = "E" -> "e"
      [] c = "U" -> "u"
      [] c = "R" -> "r"
      [] OTHER -> c

\* \w of the re module.
IsWord(c) == c \in Digits \cup UpperCase \cup LowerCase \cup {"_"}
\* \s of the re module.
IsSpace(c) == c \in Whitespace

RECURSIVE LStrip(_, _)
\* s without its leading characters in S.
LStrip(s, S) ==
    IF s # <<>> /\ Head(s) \in S THEN LStrip(Tail(s), S) ELSE s

RECURSIVE RStrip(_, _)
\* s without its trailing characters in S.
RStrip(s, S) ==
    IF s # <<>> /\ s[Len(s)] \in S THEN RStrip(SubSeq(s, 1, Len(s) - 1), S) ELSE s

(***************************************************************************)
(* ProductPageRequest.to_slug                                              *)
(***************************************************************************)
\* string.lower()
Lower(s) == [i \in 1..Len(s) |-> LowerChar(s[i])]

\* string.strip()
Strip(s) == RStrip(LStrip(s, Whitespace), Whitespace)

\* re.sub(r'[^\w\s-]', '', string)
RemoveSpecial(s) == SelectSeq(s, LAMBDA c : IsWord(c) \/ IsSpace(c) \/ c = "-")

RECURSIVE CollapseRuns(_)
\* re.sub(r'[\s_-]+', '-', string)
CollapseRuns(s) ==
    LET Sep == Whitespace \cup {"_", "-"} IN
    IF s = <<>> THEN <<>>
    ELSE IF Head(s) \in Sep THEN <<"-">> \o CollapseRuns(LStrip(s, Sep))
         ELSE <<Head(s)>> \o CollapseRuns(Tail(s))

\* re.sub(r'^-+|-+$', '', string)
TrimHyphens(s) == RStrip(LStrip(s, {"-"}), {"-"})

\* A slugifier that trims the hyphens before it collapses the separators, and
\* so keeps the hyphen a trailing underscore or inner space turns into.
to_slug_trim_first(s) == CollapseRuns(TrimHyphens(RemoveSpecial(Strip(Lower(s)))))

to_slug(s) == TrimHyphens(CollapseRuns(RemoveSpecial(Strip(Lower(s)))))

(***************************************************************************)
(* int() of a string.                                                      *)
(***************************************************************************)
DigitVal(c) ==
    CASE c = "0" -> 0 [] c = "1" -> 1 [] c = "2" -> 2 [] c = "3" -> 3
      [] c = "4" -> 4 [] c = "5" -> 5 [] c = "6" -> 6 [] c = "7" -> 7
      [] c = "8" -> 8 [] c = "9" -> 9

RECURSIVE DigitsValue(_)
DigitsValue(s) ==
    IF s = <<>> THEN 0
    ELSE 10 * DigitsValue(SubSeq(s, 1, Len(s) - 1)) + DigitVal(s[Len(s)])

\* The text after the sign: digits, with single underscores between them.
IsIntBody(s) ==
    /\ s # <<>>
    /\ \A i \in 1..Len(s) : s[i] \in Digits \cup {"_"}
    /\ s[1] # "_" /\ s[Len(s)] # "_"
    /\ \A i \in 1..(Len(s) - 1) : ~(s[i] = "_" /\ s[i + 1] = "_")

IntBody(s) ==
    LET t == Strip(s) IN
    IF t # <<>> /\ Head(t) \in {"-", "+"} THEN Tail(t) ELSE t

\* int(s) raises ValueError unless this holds.
IsInt(s) == IsIntBody(IntBody(s))

\* int(s), for a string that parses.
ParseInt(s) ==
    LET t == Strip(s)
        v == DigitsValue(SelectSeq(IntBody(s), LAMBDA c : c \in Digits))
    IN IF Head(t) = "-" THEN 0 - v ELSE v


(***************************************************************************)
(* SpecSlug: to_slug applied to a string, and again to its own output.     *)
(***************************************************************************)
SlugChars == {"a", "B", "1", "_", "-", " ", "!"}
NoSlug == <<"<unset>">>

SlugIdle ==
    /\ string = <<>> /\ slug = NoSlug /\ reslug = NoSlug /\ slugPc = "idle"

SlugInit ==
    /\ string \in SeqsUpTo(SlugChars, MaxSlugLen)
    /\ slug = NoSlug
    /\ reslug = NoSlug
    /\ slugPc = "input"

Slugify ==
    /\ slugPc = "input"
    /\ slug' = to_slug(string)
    /\ slugPc' = "slugged"
    /\ UNCHANGED <<string, reslug, resolveVars, mainVars>>

Reslugify ==
    /\ slugPc = "slugged"
    /\ reslug' = to_slug(slug)
    /\ slugPc' = "reslugged"
    /\ UNCHANGED <<string, slug, resolveVars, mainVars>>

(***************************************************************************)
(* ProductParser and resolve_product                                       *)
(***************************************************************************)
\* The value HTMLParser reports for an attribute written without one.
NoValue == <<"<None>">>

\* ProductParser.result before any assignment: the attribute does not exist.
NoResult == [set |-> FALSE, value |-> 0]

RECURSIVE handle_starttag(_, _)
\* ProductParser.handle_starttag: the parser's result after the attributes
\* attrs of one start tag, from the result before it.
handle_starttag(result, attrs) ==
    IF attrs = <<>> THEN result
    ELSE LET attr == Head(attrs)
             next == IF /\ attr.name = "data-product-id"
                        /\ attr.value # NoValue
                        /\ IsInt(attr.value)
                     THEN [set |-> TRUE, value |-> ParseInt(attr.value)]
                     ELSE result
         IN handle_starttag(next, Tail(attrs))

RECURSIVE feed(_, _)
\* HTMLParser.feed: handle_starttag on every start tag, in document order.
feed(result, tags) ==
    IF tags = <<>> THEN result
    ELSE feed(handle_starttag(result, Head(tags)), Tail(tags))

\* What a call returns or raises.
Returns(v) == [exc |-> "", id |-> v]
Raises(e) == [exc |-> e, id |-> 0]
Pending == [exc |-> "<pending>", id |-> 0]

\* The responses to a product page request.
HTTPFailure == [error |-> TRUE, tags |-> <<>>]
Page(tags) == [error |-> FALSE, tags |-> tags]

\* resolve_product, from the response to its request.
resolve_product(resp) ==
    IF resp.error THEN Raises("HTTPError")
    ELSE LET result == feed(NoResult, resp.tags) IN
         IF ~result.set THEN Raises("AttributeError")
         ELSE IF result.value = 0 THEN Raises("AssertionError")
         ELSE Returns(result.value)

\* ProductPageRequest.__init__: the slug and the platform of the URL.
ProductPageRequest(product, platform) ==
    [slug |-> to_slug(product),
     platform |-> IF platform = "pc" THEN "cd-key" ELSE platform]

(***************************************************************************)
(* SpecResolve: resolve_product applied to a page.                         *)
(***************************************************************************)
AttrValues == {NoValue, <<"0">>, <<"7">>, <<"4", "2">>, <<"x">>, <<"-", "7">>}
Attrs == {[name |-> "class", value |-> <<"b">>]}
         \cup {[name |-> "data-product-id", value |-> v] : v \in AttrValues}
Tags == SeqsUpTo(Attrs, MaxAttrs)
Pages == {Page(t) : t \in SeqsUpTo(Tags, MaxTags)}

ResolveIdle == html = HTTPFailure /\ resolved = Pending

ResolveInit ==
    /\ html \in Pages \cup {HTTPFailure}
    /\ resolved = Pending

Resolve ==
    /\ resolved = Pending
    /\ resolved' = resolve_product(html)
    /\ UNCHANGED <<html, slugVars, mainVars>>


(***************************************************************************)
(* The configuration file.  A section is its header and its settings, a    *)
(* function from the keys the file sets to their values.  The files of the *)
(* model have no DEFAULT section (`defaults` is the empty dict) and set    *)
(* Currency, Platform and Store only: Name, Region and Edition take their  *)
(* fallbacks.                                                              *)
(***************************************************************************)
\* None, as a currency (a sequence of characters) and as a platform or store.
NoCurrency == <<"<None>">>
NoPlatform == "<None>"
NoSettings == <<>>

\* settings.get(key, fallback=fallback)
Get(s, key, fallback) == IF key \in DOMAIN s THEN s[key] ELSE fallback

DigitChar == <<"1", "2", "3", "4", "5", "6", "7", "8", "9">>
\* The header of the k-th section: a product id, or a product name.
IdHeader(k) == <<DigitChar[k]>>
NameHeader(k) == <<"G", "!", " ", DigitChar[k]>>

CurrencySettings == {<<>>, "Currency" :> <<"E", "U", "R">>}
PlatformSettings == {<<>>, "Platform" :> "pc"}
StoreSettings == {<<>>, "Store" :> "A"}

IdSections(k) ==
    {[header |-> IdHeader(k), settings |-> c @@ s] :
        c \in CurrencySettings, s \in StoreSettings}
NameSections(k) ==
    {[header |-> NameHeader(k), settings |-> c @@ p @@ s] :
        c \in CurrencySettings, p \in PlatformSettings, s \in StoreSettings}
Sections(k) == IdSections(k) \cup NameSections(k)

\* The configurations of at most MaxProducts sections, the k-th drawn from S[k].
ConfigsOver(S) ==
    UNION {{c \in [1..n -> UNION {S[k] : k \in 1..n}] : \A k \in 1..n : c[k] \in S[k]} :
             n \in 0..MaxProducts}

Configs == ConfigsOver([k \in 1..MaxProducts |-> Sections(k)])

\* The configurations of product ids whose sections all set a currency.
IdSectionsWithCurrency(k) == {s \in IdSections(k) : "Currency" \in DOMAIN s.settings}
IdConfigs == ConfigsOver([k \in 1..MaxProducts |-> IdSectionsWithCurrency(k)])

(***************************************************************************)
(* main(): the startup loop.                                               *)
(***************************************************************************)
NoExit == 0 - 1
NoEntry == [product |-> 0, name |-> <<>>, currency |-> <<>>]

\* What the try block of one iteration of the startup loop does for a
\* section, given the response resp a product page request would get: the
\* exception it raises (or ""), the tuple it appends to products, and the
\* product page requests it issues.
ComposeSection(section, resp) ==
    LET s == section.settings
        cur == Get(s, "Currency", NoCurrency)
        currency == Lower(cur)
        platform == Get(s, "Platform", NoPlatform)
        request == [url |-> ProductPageRequest(section.header, platform),
                    response |-> resp]
        res == resolve_product(resp)
    IN IF cur = NoCurrency \/ cur = <<>>
         THEN [exc |-> "AssertionError", entry |-> NoEntry, requests |-> <<>>]
       ELSE IF IsInt(section.header)
         THEN [exc |-> "",
               entry |-> [product |-> ParseInt(section.header),
                          name |-> Get(s, "Name", section.header),
                          currency |-> currency],
               requests |-> <<>>]
       ELSE IF platform = NoPlatform \/ platform = ""
         THEN [exc |-> "AssertionError", entry |-> NoEntry, requests |-> <<>>]
       ELSE IF res.exc # ""
         THEN [exc |-> res.exc, entry |-> NoEntry, requests |-> <<request>>]
       ELSE [exc |-> "",
             entry |-> [product |-> res.id, name |-> section.header,
                        currency |-> currency],
             requests |-> <<request>>]

\* A handler that skips the section it could not set up.
SkipSectionOnError == [pc |-> "startup", exitCode |-> NoExit]

\* The except clauses of the startup loop: print and exit(1).
SetupErrorHandler == [pc |-> "exited", exitCode |-> 1]

\* The responses to a product page request at startup.
StartupPages ==
    {HTTPFailure, Page(<<>>),
     Page(<< <<[name |-> "data-product-id", value |-> <<"7">>]>> >>),
     Page(<< <<[name |-> "data-product-id", value |-> <<"x">>]>> >>)}

\* One iteration of the startup loop.
SetupSection(resp) ==
    /\ pc = "startup"
    /\ sidx <= Len(config)
    /\ LET c == ComposeSection(config[sidx], resp) IN
        /\ settings' = config[sidx].settings
        /\ pageLog' = pageLog \o c.requests
        /\ sidx' = sidx + 1
        /\ IF c.exc = ""
             THEN /\ products' = Append(products, c.entry)
                  /\ UNCHANGED <<pc, exitCode>>
             ELSE /\ pc' = SetupErrorHandler.pc
                  /\ exitCode' = SetupErrorHandler.exitCode
                  /\ UNCHANGED products
    /\ UNCHANGED <<config, serverStarted, idx, response, outcome, gauge>>
    /\ UNCHANGED <<slugVars, resolveVars>>

\* start_http_server, once the startup loop is over.
StartServer ==
    /\ pc = "startup"
    /\ sidx > Len(config)
    /\ serverStarted' = TRUE
    /\ pc' = "poll"
    /\ idx' = 1
    /\ UNCHANGED <<config, sidx, settings, products, exitCode, pageLog,
                   response, outcome, gauge>>
    /\ UNCHANGED <<slugVars, resolveVars>>


(***************************************************************************)
(* The offers API.                                                         *)
(***************************************************************************)
Eur == <<"e", "u", "r">>
Usd == <<"u", "s", "d">>

\* The offers of the model: of store "A" or of store "a"; in stock at 5 eur,
\* at 9 eur or at 3 usd only; out of stock at 5 eur or at 3 usd only.
Stores == {"A", "a"}
InStockPrices == {Eur :> [price |-> 5], Eur :> [price |-> 9], Usd :> [price |-> 3]}
OutOfStockPrices == {Eur :> [price |-> 5], Usd :> [price |-> 3]}
Offers ==
    {[stock |-> "InStock", platform |-> pl, price |-> pr] :
        pl \in Stores, pr \in InStockPrices}
    \cup {[stock |-> "OutOfStock", platform |-> pl, price |-> pr] :
        pl \in Stores, pr \in OutOfStockPrices}

\* The responses to an offers request: no response body (a network error or
\* a status that is not 2xx), a body that is not JSON, and a JSON object.
NetworkError == [net |-> FALSE, json |-> FALSE, success |-> FALSE, offers |-> <<>>]
Malformed == [net |-> TRUE, json |-> FALSE, success |-> FALSE, offers |-> <<>>]
Rejected == [net |-> TRUE, json |-> TRUE, success |-> FALSE, offers |-> <<>>]
Success(offers) == [net |-> TRUE, json |-> TRUE, success |-> TRUE, offers |-> offers]
NoResponse == [net |-> FALSE, json |-> FALSE, success |-> FALSE, offers |-> <<"<none>">>]

FailedResponses == {NetworkError, Malformed, Rejected}
AllResponses == FailedResponses \cup {Success(l) : l \in SeqsUpTo(Offers, MaxOffers)}

Offer(st, pl, cur, p) == [stock |-> st, platform |-> pl, price |-> cur :> [price |-> p]]
\* The responses of the polling ticks of Spec.
TickResponses ==
    FailedResponses \cup
    {Success(<<>>),
     Success(<<Offer("InStock", "A", Eur, 5)>>),
     Success(<<Offer("InStock", "a", Eur, 9)>>),
     Success(<<Offer("OutOfStock", "A", Eur, 5)>>),
     Success(<<Offer("InStock", "A", Usd, 3)>>),
     Success(<<Offer("OutOfStock", "a", Eur, 5), Offer("InStock", "A", Eur, 9)>>),
     Success(<<Offer("InStock", "A", Eur, 9), Offer("InStock", "a", Eur, 5)>>)}

\* AllKeyShop.get_offers, from the response to its request.
get_offers(resp) ==
    IF ~resp.net THEN [exc |-> "URLError", offers |-> <<>>]
    ELSE IF ~resp.json THEN [exc |-> "JSONDecodeError", offers |-> <<>>]
    ELSE IF ~resp.success THEN [exc |-> "AssertionError", offers |-> <<>>]
    ELSE [exc |-> "", offers |-> resp.offers]

(***************************************************************************)
(* main(): the polling loop.                                               *)
(***************************************************************************)
\* A filter that keeps every offer, whatever its stock.
AnyStock(offers) == offers

\* filter(lambda x: x["stock"] == "InStock", offers)
InStock(offers) == SelectSeq(offers, LAMBDA x : x.stock = "InStock")

\* The store preference the loop reads: settings.get("Store", fallback="").
StorePreference == Get(settings, "Store", "")

\* filter(lambda x: x["platform"] == store, available_offers), if store is set
OfStore(offers, store) ==
    IF store # "" THEN SelectSeq(offers, LAMBDA x : x.platform = store) ELSE offers

RECURSIVE MinBy(_, _)
\* min(available_offers, key=lambda x: x["price"][currency]["price"]), of a
\* sequence that is not empty and whose offers all have the currency: the
\* first offer of the least price.
MinBy(offers, currency) ==
    IF Len(offers) = 1 THEN Head(offers)
    ELSE LET rest == MinBy(SubSeq(offers, 1, Len(offers) - 1), currency)
             last == offers[Len(offers)]
         IN IF last.price[currency].price < rest.price[currency].price
            THEN last ELSE rest

\* The try block of one iteration of the polling loop for the entry, on the
\* response resp: the exception it raises (or "") and the value it sets the
\* gauge to.
UpdateGauge(entry, resp) ==
    LET got == get_offers(resp)
        available == OfStore(InStock(got.offers), StorePreference)
        currency == entry.currency
    IN IF got.exc # "" THEN [exc |-> got.exc, value |-> 0]
       ELSE IF available = <<>> THEN [exc |-> "ValueError", value |-> 0]
       ELSE IF \E i \in 1..Len(available) : currency \notin DOMAIN available[i].price
         THEN [exc |-> "KeyError", value |-> 0]
       ELSE [exc |-> "", value |-> MinBy(available, currency).price[currency].price]

\* The label values of an entry's child of the gauge.
Labels(entry) == <<entry.name, entry.currency>>

\* A loop that creates the child, at value 0, before the update that fails.
GaugeZeroOnError(g, entry, res) ==
    IF res.exc = "" THEN (Labels(entry) :> res.value) @@ g
    ELSE (Labels(entry) :> 0) @@ g

\* gauge.labels(product_name=name, currency=currency).set(...), reached only
\* when the try block raised nothing before it.
GaugeAfter(g, entry, res) ==
    IF res.exc = "" THEN (Labels(entry) :> res.value) @@ g ELSE g

\* A loop whose try block is around the for loop: an exception ends the tick.
BreakOnError(exc) == IF exc = "" THEN "poll" ELSE "sleep"

\* Where the loop goes after an iteration: the except clause prints and the
\* for loop goes on with the next product.
AfterIteration(exc) == "poll"

\* The loop calls get_offers for the product it is at: the request is sent,
\* and urlopen blocks until its response.
SendRequest ==
    /\ pc = "poll"
    /\ idx <= Len(products)
    /\ pc' = "waiting"
    /\ response' = NoResponse
    /\ outcome' = "<none>"
    /\ UNCHANGED <<config, sidx, settings, products, serverStarted, exitCode,
                   pageLog, idx, gauge>>
    /\ UNCHANGED <<slugVars, resolveVars>>

\* The response arrives and the iteration runs to its end.
Respond(resp) ==
    /\ pc = "waiting"
    /\ LET res == UpdateGauge(products[idx], resp) IN
        /\ response' = resp
        /\ outcome' = IF res.exc = "" THEN "set" ELSE res.exc
        /\ gauge' = GaugeAfter(gauge, products[idx], res)
        /\ pc' = AfterIteration(res.exc)
        /\ idx' = idx + 1
    /\ UNCHANGED <<config, sidx, settings, products, serverStarted, exitCode,
                   pageLog>>
    /\ UNCHANGED <<slugVars, resolveVars>>

\* The for loop is over: time.sleep(60).
EndTick ==
    /\ pc = "poll"
    /\ idx > Len(products)
    /\ pc' = "sleep"
    /\ UNCHANGED <<config, sidx, settings, products, serverStarted, exitCode,
                   pageLog, idx, response, outcome, gauge>>
    /\ UNCHANGED <<slugVars, resolveVars>>

\* The sleep returns and the next tick starts.
NextTick ==
    /\ pc = "sleep"
    /\ pc' = "poll"
    /\ idx' = 1
    /\ UNCHANGED <<config, sidx, settings, products, serverStarted, exitCode,
                   pageLog, response, outcome, gauge>>
    /\ UNCHANGED <<slugVars, resolveVars>>

(***************************************************************************)
(* The specifications.                                                     *)
(***************************************************************************)
MainIdle ==
    /\ config = <<>> /\ pc = "idle" /\ sidx = 1 /\ settings = NoSettings
    /\ products = <<>> /\ serverStarted = FALSE /\ exitCode = NoExit
    /\ pageLog = <<>> /\ idx = 1 /\ response = NoResponse
    /\ outcome = "<none>" /\ gauge = <<>>

MainInit(C) ==
    /\ config \in C
    /\ pc = "startup"
    /\ sidx = 1
    /\ settings = NoSettings
    /\ products = <<>>
    /\ serverStarted = FALSE
    /\ exitCode = NoExit
    /\ pageLog = <<>>
    /\ idx = 1
    /\ response = NoResponse
    /\ outcome = "<none>"
    /\ gauge = <<>>

\* The steps of the program itself; the response to a request is its peer's.
Startup == \E resp \in StartupPages : SetupSection(resp)
Program == Startup \/ StartServer \/ SendRequest \/ EndTick \/ NextTick
TickResponse == \E resp \in TickResponses : Respond(resp)

Init == MainInit(Configs) /\ SlugIdle /\ ResolveIdle
Next ==
    \/ Startup
    \/ StartServer
    \/ SendRequest
    \/ TickResponse
    \/ EndTick
    \/ NextTick
Spec == Init /\ [][Next]_vars

\* The program takes the steps it can take: the startup loop, the for loop
\* and the sleep go on.  Nothing makes the peer answer a request.
LiveSpec == Spec /\ WF_vars(Program)

\* The first tick of a configuration of product ids, on every offer list.
AnyResponse == \E resp \in AllResponses : Respond(resp)
SelectInit == MainInit(IdConfigs) /\ SlugIdle /\ ResolveIdle
SelectNext ==
    \/ Startup
    \/ StartServer
    \/ SendRequest
    \/ AnyResponse
SpecSelect == SelectInit /\ [][SelectNext]_vars

SlugSpecInit == SlugInit /\ ResolveIdle /\ MainIdle
SlugNext == Slugify \/ Reslugify
SpecSlug == SlugSpecInit /\ [][SlugNext]_vars

ResolveSpecInit == ResolveInit /\ SlugIdle /\ MainIdle
ResolveNext == Resolve
SpecResolve == ResolveSpecInit /\ [][ResolveNext]_vars


(***************************************************************************)
(* The terms of the properties.                                               *)
(***************************************************************************)
\* An iteration of the polling loop: the response of the product at idx
\* arrives (response') and the iteration runs to its end.
Iteration == pc = "waiting" /\ pc' # "waiting"

\* The offers request got a JSON object with a true success field.
FetchSucceeds(resp) == resp.net /\ resp.json /\ resp.success

\* The positions of the offers that are in stock and of the store, if any.
Qualifying(offers, store) ==
    {i \in 1..Len(offers) :
        /\ offers[i].stock = "InStock"
        /\ (store = "" \/ offers[i].platform = store)}

\* The positions among Q of the offers that have a price in the currency.
Comparable(offers, Q, currency) == {i \in Q : currency \in DOMAIN offers[i].price}

\* v is the least of the prices, in the currency, of the offers at Q.
IsLeastPrice(v, offers, Q, currency) ==
    /\ \E i \in Q : offers[i].price[currency].price = v
    /\ \A i \in Q : offers[i].price[currency].price >= v

\* The Store setting of the section the k-th product was composed from.
OwnStore(k) == Get(config[k].settings, "Store", "")

\* The selection of the loop succeeds on the offers: with the store
\* preference the loop applies, an offer qualifies and all that qualify have
\* a price in the currency.
SelectionSucceeds(offers, currency) ==
    LET Q == Qualifying(offers, StorePreference) IN
    Q # {} /\ Comparable(offers, Q, currency) = Q

\* The logged product page requests of the k-th section.
PageRequestsOf(k) ==
    {i \in 1..Len(pageLog) : pageLog[i].url.slug = to_slug(config[k].header)}

\* The k-th section cannot be composed: no currency, or, for a name, no
\* platform, a failed request or a page without a product id.
CannotCompose(k) ==
    LET s == config[k].settings IN
    \/ "Currency" \notin DOMAIN s
    \/ /\ ~IsInt(config[k].header)
       /\ \/ "Platform" \notin DOMAIN s
          \/ \E i \in PageRequestsOf(k) :
                \/ pageLog[i].response.error
                \/ \A t \in 1..Len(pageLog[i].response.tags) :
                     \A a \in 1..Len(pageLog[i].response.tags[t]) :
                        LET attr == pageLog[i].response.tags[t][a] IN
                        ~(attr.name = "data-product-id" /\ attr.value # NoValue
                          /\ IsInt(attr.value))

RECURSIVE Flatten(_)
\* The attributes of a page, in document order.
Flatten(tags) == IF tags = <<>> THEN <<>> ELSE Head(tags) \o Flatten(Tail(tags))

\* The data-product-id values of a page that parse as integers, in order.
ParsedIds(tags) ==
    LET ok == SelectSeq(Flatten(tags),
                        LAMBDA a : a.name = "data-product-id" /\ a.value # NoValue
                                   /\ IsInt(a.value))
    IN [i \in 1..Len(ok) |-> ParseInt(ok[i].value)]

(***************************************************************************)
(* C1.  A failure on one product never keeps another product of the same   *)
(* tick from being fetched and updated: after every iteration, whatever    *)
(* its outcome, the loop is at the next product, the tick ends only when   *)
(* every product had its iteration, and an iteration whose own fetch and   *)
(* selection succeed sets the gauge of its product.                        *)
(***************************************************************************)
C1_FailureIsolation ==
    [][/\ Iteration =>
            LET entry == products[idx]
                offers == response'.offers
                Q == Qualifying(offers, StorePreference)
            IN /\ pc' = "poll"
               /\ idx' = idx + 1
               /\ (FetchSucceeds(response') /\ SelectionSucceeds(offers, entry.currency))
                    => /\ outcome' = "set"
                       /\ Labels(entry) \in DOMAIN gauge'
                       /\ IsLeastPrice(gauge'[Labels(entry)], offers, Q, entry.currency)
       /\ pc' = "sleep" => idx' = Len(products') + 1
      ]_vars

\* The second of two products is set in a tick in which the first, which
\* never got a value, failed.
C1_Witness ==
    /\ Len(products) = 2
    /\ pc = "poll" /\ idx = 3
    /\ outcome = "set"
    /\ Labels(products[1]) \notin DOMAIN gauge
    /\ Labels(products[2]) \in DOMAIN gauge

(***************************************************************************)
(* C2.  An iteration that fails (no response, a body that is not JSON,     *)
(* success false, or no offer that is in stock, of the store and priced in *)
(* the currency, an empty list included) leaves every child of the gauge   *)
(* as it was, and the loop goes on: it is at the next product and the      *)
(* process has not exited.                                                 *)
(***************************************************************************)
C2_FailureKeepsGauge ==
    [][Iteration =>
         LET entry == products[idx]
             offers == response'.offers
             Q == Qualifying(offers, StorePreference)
             failed == \/ ~FetchSucceeds(response')
                       \/ Comparable(offers, Q, entry.currency) = {}
         IN failed => /\ gauge' = gauge
                      /\ outcome' # "set"
                      /\ pc' = "poll" /\ idx' = idx + 1
                      /\ exitCode' = NoExit
      ]_vars

\* In a later tick, the iteration of a product whose gauge had been set to 9
\* failed.
C2_Witness ==
    /\ pc = "poll" /\ idx = 2
    /\ outcome \notin {"set", "<none>"}
    /\ Labels(products[1]) \in DOMAIN gauge
    /\ gauge[Labels(products[1])] = 9

(***************************************************************************)
(* C3.  The server is started only after every section was composed into   *)
(* an entry (its currency set, its name resolved to the id of the page);   *)
(* a section that cannot be composed makes the process exit with status 1, *)
(* the server never started and no tick run; once the server is started no *)
(* product page is requested and no entry changes.                         *)
(***************************************************************************)
C3_ServeOnlyComposed ==
    /\ [](serverStarted =>
            /\ Len(products) = Len(config)
            /\ \A k \in 1..Len(config) :
                 /\ ~CannotCompose(k)
                 /\ products[k].currency = Lower(config[k].settings["Currency"])
                 /\ IsInt(config[k].header) =>
                      products[k].product = ParseInt(config[k].header)
                 /\ ~IsInt(config[k].header) => Cardinality(PageRequestsOf(k)) = 1)
    /\ []((\E k \in 1..(sidx - 1) : k <= Len(config) /\ CannotCompose(k)) =>
            /\ pc = "exited" /\ exitCode = 1
            /\ ~serverStarted
            /\ gauge = <<>> /\ response = NoResponse)
    /\ [](pc \in {"poll", "waiting", "sleep"} => serverStarted /\ exitCode = NoExit)
    /\ [][serverStarted => pageLog' = pageLog /\ products' = products]_vars

\* The second section is a name whose page has no product id: the process
\* has exited after composing the first.
C3_Witness ==
    /\ pc = "exited" /\ exitCode = 1
    /\ Len(config) = 2 /\ Len(products) = 1
    /\ Len(pageLog) >= 1
    /\ ~pageLog[Len(pageLog)].response.error
    /\ ~serverStarted

(***************************************************************************)
(* C4.  The value an iteration publishes is the least price, in the        *)
(* currency, of exactly the offers that are "InStock" and of the store the *)
(* loop filters by, if any: no offer that is out of stock is selected, no  *)
(* qualifying offer is cheaper, and the value is published whenever an     *)
(* offer qualifies and all that qualify have the currency.                 *)
(***************************************************************************)
C4_LeastInStockPrice ==
    [][Iteration =>
         LET entry == products[idx]
             offers == response'.offers
             Q == Qualifying(offers, StorePreference)
         IN /\ outcome' = "set" =>
                 /\ FetchSucceeds(response')
                 /\ Q # {}
                 /\ Labels(entry) \in DOMAIN gauge'
                 /\ IsLeastPrice(gauge'[Labels(entry)], offers, Q, entry.currency)
            /\ (FetchSucceeds(response') /\ SelectionSucceeds(offers, entry.currency))
                 => outcome' = "set"
      ]_vars

\* A value was published although an offer that is out of stock is cheaper.
C4_Witness ==
    /\ pc = "poll" /\ idx > 1
    /\ outcome = "set"
    /\ \E i \in 1..Len(response.offers) :
          /\ response.offers[i].stock = "OutOfStock"
          /\ Eur \in DOMAIN response.offers[i].price
          /\ response.offers[i].price[Eur].price < gauge[Labels(products[idx - 1])]

(***************************************************************************)
(* C5.  The store filter of an iteration is the Store setting of the       *)
(* product's own section: the value published is the least price of the    *)
(* in-stock offers of that store (of every store, if the section sets      *)
(* none), whatever the other sections set.                                 *)
(***************************************************************************)
C5_OwnStoreFilter ==
    [][Iteration =>
         LET entry == products[idx]
             offers == response'.offers
             Q == Qualifying(offers, OwnStore(idx))
         IN /\ outcome' = "set" =>
                 /\ Q # {}
                 /\ IsLeastPrice(gauge'[Labels(entry)], offers, Q, entry.currency)
            /\ (/\ FetchSucceeds(response')
                /\ Q # {}
                /\ Comparable(offers, Q, entry.currency) = Q) => outcome' = "set"
      ]_vars

(***************************************************************************)
(* C6.  A qualifying offer without the currency is left out of the         *)
(* comparison: when another qualifying offer has the currency the gauge is *)
(* set to the least price among those that have it, and the selection      *)
(* fails only when none has it.                                            *)
(***************************************************************************)
C6_MissingCurrencySkipped ==
    [][(Iteration /\ FetchSucceeds(response')) =>
         LET entry == products[idx]
             offers == response'.offers
             Q == Qualifying(offers, StorePreference)
             C == Comparable(offers, Q, entry.currency)
         IN IF C # {}
              THEN /\ outcome' = "set"
                   /\ IsLeastPrice(gauge'[Labels(entry)], offers, C, entry.currency)
              ELSE outcome' # "set"
      ]_vars

(***************************************************************************)
(* C7.  resolve returns the first data-product-id value, in document       *)
(* order, that parses as an integer: no data-product-id attribute after it *)
(* changes the result.                                                     *)
(***************************************************************************)
C7_FirstMatchWins ==
    (resolved # Pending /\ ~html.error /\ ParsedIds(html.tags) # <<>>) =>
        /\ resolved.exc = "" => resolved.id = ParsedIds(html.tags)[1]
        /\ ParsedIds(html.tags)[1] # 0 => resolved = Returns(ParsedIds(html.tags)[1])

(***************************************************************************)
(* C8.  resolve fails on a page where no data-product-id value parses as   *)
(* an integer, and returns N on a page whose single element has            *)
(* data-product-id="N" for an integer N.                                   *)
(***************************************************************************)
C8_ResolveOrFail ==
    (resolved # Pending /\ ~html.error) =>
        /\ ParsedIds(html.tags) = <<>> => resolved.exc # ""
        /\ (Len(html.tags) = 1 /\ Len(html.tags[1]) = 1 /\ Len(ParsedIds(html.tags)) = 1)
             => resolved = Returns(ParsedIds(html.tags)[1])

(***************************************************************************)
(* C9.  to_slug is idempotent, and its output neither starts nor ends with *)
(* a hyphen and holds no whitespace.                                       *)
(***************************************************************************)
C9_SlugIdempotent ==
    /\ slugPc = "reslugged" => reslug = slug
    /\ slugPc \in {"slugged", "reslugged"} =>
         /\ \A i \in 1..Len(slug) : slug[i] \notin Whitespace
         /\ slug # <<>> => (slug[1] # "-" /\ slug[Len(slug)] # "-")

\* A string with an upper-case letter, a separator and a special character
\* was slugged twice.
C9_Witness ==
    /\ slugPc = "reslugged"
    /\ string = <<"B", "_", "!">>
    /\ slug = <<"b">>

(***************************************************************************)
(* C10.  A request that gets no response does not stall the loop: the      *)
(* iteration ends, the rest of the tick is processed and the tick ends.    *)
(***************************************************************************)
C10_HangIsBounded == (pc = "waiting") ~> (pc = "sleep")

=============================================================================
